---------------------------- MODULE Spec2Model ----------------------------
(***************************************************************************)
(* Flight Analytics ETL: the three pipeline variants of the repository     *)
(* (etl.py, new_main.py, main.py) over one relational store.               *)
(*                                                                         *)
(* Optional values (Python None, pandas NaT / NaN) are sequences of length *)
(* 0 or 1: None is <<>>, a present value x is <<x>>.  Timestamps are       *)
(* minutes of the day in UTC; a delay is a difference of two timestamps in *)
(* minutes.  A formatted key such as f"{a}_{b}" is the tuple of its parts. *)
(***************************************************************************)
EXTENDS Integers, Sequences, FiniteSets

VARIABLES
    world,                  \* the legs the upstream API knows for the day
    pc,                     \* position of the running per-airport sequence
    variant,                \* the module whose sequence is running
    iata,                   \* the airport code handed to the sequence
    fetched,                \* the dict returned by fetch_flights
    df,                     \* the frame returned by flights_to_dataframe
    delayCols,              \* the "delay" columns the delay step computed
    metrics,                \* the dict of compute_airport_delay_metrics
    airport,                \* table airport
    aircraft,               \* table aircraft
    flights,                \* table flights
    airport_delays,         \* table airport_delays
    AIRCRAFT_REGISTRATIONS, \* etl.py's module-level registry
    error,                  \* the exception that ended the last sequence
    runs,                   \* number of sequences run so far
    rerun,                  \* the last sequence repeated the one before it
    date,                   \* the date handed to fetch_flights, in days from DATE
    windows,                \* the windows the splitter of fetch_flights built
    responses,              \* the responses to the requests of the running call
    calls,                  \* trace of upstream requests ("GET") and sleeps
    attempted,              \* the airports run_etl's loop has started, in order
    steps,                  \* the steps done for the airport being processed
    todo,                   \* the registrations the aircraft loop has yet to visit
    aircraft_data,          \* what the last fetch_aircraft_data returned
    lookups,                \* the registrations handed to fetch_aircraft_data
    db_errors               \* the registrations whose INSERT raised sqlite3.Error

vars == <<world, pc, variant, iata, fetched, df, delayCols, metrics, airport,
          aircraft, flights, airport_delays, AIRCRAFT_REGISTRATIONS, error,
          runs, rerun, date, windows, responses, calls, attempted, steps,
          todo, aircraft_data, lookups, db_errors>>

\* The state of the step-level specifications.
callvars == <<date, windows, responses, calls>>
orchvars == <<attempted, steps, todo, aircraft_data, lookups, db_errors>>

---------------------------------------------------------------------------
(* Bounds *)

NumAirports == 2    \* how many entries of AIRPORTS the model tracks
MaxRows == 2        \* payloads in one fetch_flights result (both lists)
MaxLegs == 2        \* legs the upstream knows in the pipeline model
MaxRuns == 2        \* per-airport sequences started in one behaviour
MaxDay == 1         \* dates handed to fetch_flights: DATE and MaxDay days on

---------------------------------------------------------------------------
(* Optional values *)

None == <<>>
Some(x) == <<x>>
Val(o) == o[1]

\* Python's `x or d` on an optional value.
Or(x, d) == IF x = None THEN d ELSE x

RECURSIVE SumSeq(_)
SumSeq(s) == IF s = <<>> THEN 0 ELSE Head(s) + SumSeq(Tail(s))

MapSeq(f(_), s) == [i \in 1..Len(s) |-> f(s[i])]

---------------------------------------------------------------------------
(* Configuration *)

AIRPORTS ==
    <<"DEL", "BOM", "BLR", "HYD", "JFK", "LAX", "DXB",
      "SIN", "LHR", "CDG", "CCU", "PNQ", "GOI", "MAA", "MYQ">>

\* The tracked airports of the model: a prefix of AIRPORTS.
Airports == {AIRPORTS[i] : i \in 1..NumAirports}

\* The date handed to run_etl.
DATE == "2024-12-14"

Variants == {"etl", "new_main", "main"}

---------------------------------------------------------------------------
(* The upstream API: legs and the payloads it serves for them *)

\* Scheduled and revised time of one side of a leg: no revision, late,
\* early (the revised time precedes the scheduled one), nothing known.
DepNoRev == <<Some(600), None>>
DepLate  == <<Some(600), Some(625)>>
DepEarly == <<Some(625), Some(600)>>
ArrNoRev == <<Some(720), None>>
ArrLate  == <<Some(720), Some(760)>>
ArrEarly == <<Some(745), Some(720)>>
Unknown  == <<None, None>>

MkLeg(al, st, rg, o, d, dt, at) ==
    [airline |-> al, number |-> Some("AI101"), reg |-> rg, status |-> st,
     origin |-> o, dest |-> d,
     depSched |-> dt[1], depRev |-> dt[2],
     arrSched |-> at[1], arrRev |-> at[2]]

\* AI101 from DEL to BOM, scheduled 10:00Z, departed 10:25Z.
BaseLeg ==
    MkLeg(Some("AI"), Some("Departed"), Some("VT-ANA"), "DEL", "BOM",
          DepLate, ArrNoRev)

\* Legs that differ from BaseLeg in their times.
TimingLegs ==
    {MkLeg(Some("AI"), Some("Departed"), Some("VT-ANA"), "DEL", "BOM", t[1], t[2]) :
        t \in {<<DepLate, ArrNoRev>>, <<DepLate, ArrLate>>, <<DepLate, ArrEarly>>,
               <<DepLate, Unknown>>, <<DepEarly, ArrNoRev>>, <<DepNoRev, ArrLate>>,
               <<DepNoRev, ArrNoRev>>, <<Unknown, ArrLate>>, <<Unknown, Unknown>>}}

\* Legs that differ from BaseLeg in airline, route, status or aircraft.
OtherLegs ==
    {[BaseLeg EXCEPT !.airline = Some("6E")],
     [BaseLeg EXCEPT !.origin = "BOM", !.dest = "DEL"],
     [BaseLeg EXCEPT !.dest = "DEL"],
     [BaseLeg EXCEPT !.status = Some("Canceled")],
     [BaseLeg EXCEPT !.status = Some("CanceledUncertain")],
     [BaseLeg EXCEPT !.status = None],
     [BaseLeg EXCEPT !.reg = None]}

Legs == TimingLegs \cup OtherLegs

\* The item the API puts in "departures" of a query of the leg's origin:
\* the queried side carries no airport.
DepPayload(l) ==
    [airline |-> l.airline, number |-> l.number, reg |-> l.reg,
     status |-> l.status,
     depAirport |-> None, arrAirport |-> Some(l.dest),
     depSched |-> l.depSched, depRev |-> l.depRev,
     arrSched |-> l.arrSched, arrRev |-> l.arrRev,
     depActualLocal |-> None, arrActualLocal |-> None]

\* The item the API puts in "arrivals" of a query of the leg's destination.
ArrPayload(l) ==
    [airline |-> l.airline, number |-> l.number, reg |-> l.reg,
     status |-> l.status,
     depAirport |-> Some(l.origin), arrAirport |-> None,
     depSched |-> l.depSched, depRev |-> l.depRev,
     arrSched |-> l.arrSched, arrRev |-> l.arrRev,
     depActualLocal |-> None, arrActualLocal |-> None]

---------------------------------------------------------------------------
(* Normalizer and deduplicator: flights_to_dataframe *)

\* etl.py: f"{number}_{scheduled utc}", departures side.
EtlDepFlightId(p) == <<p.number, p.depSched>>

\* etl.py: f"{number}_{scheduled utc}", arrivals side.
EtlArrFlightId(p) == <<p.number, p.arrSched>>

EtlDepRow(p, airport_iata) ==
    [flight_id |-> EtlDepFlightId(p),
     flight_number |-> p.number,
     aircraft_registration |-> p.reg,
     origin_iata |-> Some(airport_iata),
     destination_iata |-> p.arrAirport,
     scheduled_departure |-> p.depSched,
     actual_departure |-> p.depRev,
     scheduled_arrival |-> p.arrSched,
     actual_arrival |-> p.arrRev,
     status |-> p.status,
     airline_code |-> p.airline]

EtlArrRow(p, airport_iata) ==
    [flight_id |-> EtlArrFlightId(p),
     flight_number |-> p.number,
     aircraft_registration |-> p.reg,
     origin_iata |-> p.depAirport,
     destination_iata |-> Some(airport_iata),
     scheduled_departure |-> p.depSched,
     actual_departure |-> p.depRev,
     scheduled_arrival |-> p.arrSched,
     actual_arrival |-> p.arrRev,
     status |-> p.status,
     airline_code |-> p.airline]

\* new_main.py: f"{airline_code}_{flight_number}_{scheduled_dep}".
NewMainDepFlightId(p) == <<p.airline, p.number, p.depSched>>

\* new_main.py: f"{airline_code}_{flight_number}_{scheduled_arr}".
NewMainArrFlightId(p) == <<p.airline, p.number, p.arrSched>>

\* A departures-side row that takes both airports as the payload names them.
DepRowAsServed(p, code) ==
    [flight_id |-> NewMainDepFlightId(p),
     flight_number |-> p.number,
     aircraft_registration |-> p.reg,
     origin_iata |-> p.depAirport,
     destination_iata |-> p.arrAirport,
     scheduled_departure |-> p.depSched,
     actual_departure |-> Or(p.depRev, p.depSched),
     scheduled_arrival |-> p.arrSched,
     actual_arrival |-> Or(p.arrRev, p.arrSched),
     status |-> p.status,
     airline_code |-> p.airline]

NewMainDepRow(p, code) ==
    [flight_id |-> NewMainDepFlightId(p),
     flight_number |-> p.number,
     aircraft_registration |-> p.reg,
     origin_iata |-> Or(p.depAirport, Some(code)),
     destination_iata |-> p.arrAirport,
     scheduled_departure |-> p.depSched,
     actual_departure |-> Or(p.depRev, p.depSched),
     scheduled_arrival |-> p.arrSched,
     actual_arrival |-> Or(p.arrRev, p.arrSched),
     status |-> p.status,
     airline_code |-> p.airline]

NewMainArrRow(p, code) ==
    [flight_id |-> NewMainArrFlightId(p),
     flight_number |-> p.number,
     aircraft_registration |-> p.reg,
     origin_iata |-> p.depAirport,
     destination_iata |-> Or(p.arrAirport, Some(code)),
     scheduled_departure |-> p.depSched,
     actual_departure |-> Or(p.depRev, p.depSched),
     scheduled_arrival |-> p.arrSched,
     actual_arrival |-> Or(p.arrRev, p.arrSched),
     status |-> p.status,
     airline_code |-> p.airline]

\* pandas drop_duplicates(subset=["flight_id"]): the first row of every
\* flight_id is kept, in order.
RECURSIVE DropFrom(_, _, _)
DropFrom(rows, i, seen) ==
    IF i > Len(rows) THEN <<>>
    ELSE IF rows[i].flight_id \in seen
         THEN DropFrom(rows, i + 1, seen)
         ELSE <<rows[i]>> \o DropFrom(rows, i + 1, seen \cup {rows[i].flight_id})

\* A deduplication that keeps the last row of every flight_id.
RECURSIVE KeepLastFrom(_, _)
KeepLastFrom(rows, i) ==
    IF i > Len(rows) THEN <<>>
    ELSE IF \E j \in (i + 1)..Len(rows) : rows[j].flight_id = rows[i].flight_id
         THEN KeepLastFrom(rows, i + 1)
         ELSE <<rows[i]>> \o KeepLastFrom(rows, i + 1)

KeepLast(rows) == KeepLastFrom(rows, 1)

drop_duplicates(rows) == DropFrom(rows, 1, {})

\* The rows list before deduplication: all departures, then all arrivals.
NormalizedRows(v, fl, code) ==
    IF v = "etl"
    THEN [i \in 1..Len(fl.departures) |-> EtlDepRow(fl.departures[i], code)]
         \o [i \in 1..Len(fl.arrivals) |-> EtlArrRow(fl.arrivals[i], code)]
    ELSE [i \in 1..Len(fl.departures) |-> NewMainDepRow(fl.departures[i], code)]
         \o [i \in 1..Len(fl.arrivals) |-> NewMainArrRow(fl.arrivals[i], code)]

flights_to_dataframe(v, fl, code) == drop_duplicates(NormalizedRows(v, fl, code))

\* The registrations of the departures only.
DepartureRegistrations(fl) ==
    {fl.departures[i].reg : i \in 1..Len(fl.departures)}

\* The registrations flights_to_dataframe of etl.py adds to the registry.
SeenRegistrations(fl) ==
    {fl.departures[i].reg : i \in 1..Len(fl.departures)}
    \cup {fl.arrivals[i].reg : i \in 1..Len(fl.arrivals)}

---------------------------------------------------------------------------
(* Delay metrics: compute_airport_delay_metrics (etl.py) and the delay     *)
(* columns of run_etl (new_main.py)                                        *)

NaT == None
NaN == None

\* pd.to_datetime(errors="coerce"): a missing value becomes NaT; the
\* timestamps the upstream serves are well formed and keep their instant.
to_datetime(x) == IF x = None THEN NaT ELSE x

\* (actual - scheduled).dt.total_seconds() / 60: NaN when either is NaT.
DelayMinutes(actual, scheduled) ==
    IF to_datetime(actual) = NaT \/ to_datetime(scheduled) = NaT
    THEN NaN
    ELSE Some(Val(to_datetime(actual)) - Val(to_datetime(scheduled)))

\* A delay column without the clip: negative differences are kept.
Unclipped(d) == d

\* Series.clip(lower=0): NaN stays NaN.
clip_lower_0(d) == IF d = NaN THEN NaN ELSE (IF Val(d) < 0 THEN Some(0) ELSE d)

\* etl.py: the rows of dep.
EtlDepRows(frame, code) ==
    SelectSeq(frame, LAMBDA r :
        /\ r.origin_iata = Some(code)
        /\ to_datetime(r.scheduled_departure) # NaT
        /\ to_datetime(r.actual_departure) # NaT)

\* etl.py: the rows of arr.
EtlArrRows(frame, code) ==
    SelectSeq(frame, LAMBDA r :
        /\ r.destination_iata = Some(code)
        /\ to_datetime(r.scheduled_arrival) # NaT
        /\ to_datetime(r.actual_arrival) # NaT)

\* etl.py: dep["delay"] as first assigned.
EtlDepDelayFirst(r) ==
    clip_lower_0(DelayMinutes(r.actual_departure, r.scheduled_departure))

\* etl.py: dep["delay"] as it stands when the delays are pooled: the
\* second assignment overwrites the first with the arrival times of the row.
EtlDepDelay(r) ==
    clip_lower_0(DelayMinutes(r.actual_arrival, r.scheduled_arrival))

\* etl.py: arr["delay"].
EtlArrDelay(r) ==
    clip_lower_0(DelayMinutes(r.actual_arrival, r.scheduled_arrival))

\* The defined values of a Series (pandas skips NaN in mean and median).
DropNaN(s) == MapSeq(Val, SelectSeq(s, LAMBDA d : d # NaN))

RECURSIVE InsertSorted(_, _)
InsertSorted(x, s) ==
    IF s = <<>> THEN <<x>>
    ELSE IF x <= Head(s) THEN <<x>> \o s
         ELSE <<Head(s)>> \o InsertSorted(x, Tail(s))

RECURSIVE SortAsc(_)
SortAsc(s) == IF s = <<>> THEN <<>> ELSE InsertSorted(Head(s), SortAsc(Tail(s)))

\* int(delays.mean()): NaN (int() raises) when no value is defined.
IntMean(s) ==
    LET xs == DropNaN(s)
    IN  IF xs = <<>> THEN NaN ELSE Some(SumSeq(xs) \div Len(xs))

\* int(delays.median()): NaN (int() raises) when no value is defined.
IntMedian(s) ==
    LET xs == SortAsc(DropNaN(s))
        n  == Len(xs)
    IN  IF n = 0 THEN NaN
        ELSE IF n % 2 = 1 THEN Some(xs[(n + 1) \div 2])
             ELSE Some((xs[n \div 2] + xs[n \div 2 + 1]) \div 2)

\* str.lower() of the values the status column holds.
str_lower(st) ==
    IF st = None THEN NaN
    ELSE IF Val(st) = "Canceled" THEN Some("canceled")
    ELSE IF Val(st) = "CanceledUncertain" THEN Some("canceleduncertain")
    ELSE IF Val(st) = "Departed" THEN Some("departed")
    ELSE st

Cancelled(frame, code) ==
    Len(SelectSeq(frame, LAMBDA r :
        /\ str_lower(r.status) \in {Some("cancelled"), Some("canceled")}
        /\ (r.origin_iata = Some(code) \/ r.destination_iata = Some(code))))

\* The "delay" columns at the end of compute_airport_delay_metrics.
EtlDelayCols(frame, code) ==
    [dep_first |-> MapSeq(EtlDepDelayFirst, EtlDepRows(frame, code)),
     dep       |-> MapSeq(EtlDepDelay, EtlDepRows(frame, code)),
     arr       |-> MapSeq(EtlArrDelay, EtlArrRows(frame, code))]

\* A frame built from no rows has no columns: df[col] raises KeyError.
\* int() of a NaN mean or median raises ValueError.
compute_airport_delay_metrics(frame, code, date_str) ==
    LET cols   == EtlDelayCols(frame, code)
        delays == cols.dep \o cols.arr
    IN  IF Len(frame) = 0 THEN [raised |-> "KeyError"]
        ELSE IF delays # <<>> /\ (IntMean(delays) = NaN \/ IntMedian(delays) = NaN)
        THEN [raised |-> "ValueError"]
        ELSE [raised |-> "none",
              airport_iata |-> code,
              delay_date |-> date_str,
              total_flights |-> Len(cols.dep) + Len(cols.arr),
              delayed_flights |->
                  Len(SelectSeq(delays, LAMBDA d : d # NaN /\ Val(d) > 0)),
              avg_delay_min |->
                  IF delays # <<>> THEN Val(IntMean(delays)) ELSE 0,
              median_delay_min |->
                  IF delays # <<>> THEN Val(IntMedian(delays)) ELSE 0,
              canceled_flights |-> Cancelled(frame, code)]

\* str.upper() of an airport code column value (codes are upper case).
str_upper(code) == IF code = None THEN NaN ELSE code

\* new_main.py run_etl: the rows of the first filtered_df.
NewMainDepRows(frame, code) ==
    SelectSeq(frame, LAMBDA r :
        /\ str_upper(r.origin_iata) = Some(code)
        /\ r.scheduled_departure # None
        /\ r.actual_departure # None)

\* new_main.py run_etl: the rows of the second filtered_df; the
\* destination is compared with the literal "DEL".
NewMainArrRows(frame, code) ==
    SelectSeq(frame, LAMBDA r :
        /\ str_upper(r.destination_iata) = Some("DEL")
        /\ r.scheduled_arrival # None
        /\ r.actual_arrival # None)

NewMainDepDelay(r) ==
    clip_lower_0(DelayMinutes(r.actual_departure, r.scheduled_departure))

NewMainArrDelay(r) ==
    clip_lower_0(DelayMinutes(r.actual_arrival, r.scheduled_arrival))

\* departure_delay_min and arrival_delay_min of run_etl.
NewMainDelayCols(frame, code) ==
    [dep_first |-> MapSeq(NewMainDepDelay, NewMainDepRows(frame, code)),
     dep       |-> MapSeq(NewMainDepDelay, NewMainDepRows(frame, code)),
     arr       |-> MapSeq(NewMainArrDelay, NewMainArrRows(frame, code))]

NoCols == [dep_first |-> <<>>, dep |-> <<>>, arr |-> <<>>]
NoMetrics == [raised |-> "unset"]

---------------------------------------------------------------------------
(* Time windows and fetch_flights *)

\* Asia/Kolkata is UTC+05:30; instants are minutes from 00:00Z of DATE.
IstOffsetMin == 330

\* A timezone-aware datetime: its instant (utc, in minutes from 00:00Z of
\* DATE) and the UTC offset of its timezone (off, in minutes).
\* datetime.strptime(date_str, "%Y-%m-%d"): the naive midnight of day d,
\* in wall-clock minutes from the midnight of DATE.
strptime(d) == d * 24 * 60

\* A datetime taken as a wall-clock time of UTC.
LocalizeAsUtc(naive) == [utc |-> naive, off |-> 0]

\* tz.localize(naive) for Asia/Kolkata.
localize(naive) == [utc |-> naive - IstOffsetMin, off |-> IstOffsetMin]

\* dt + timedelta(minutes=m)
plus(dt, m) == [dt EXCEPT !.utc = @ + m]

\* dt.astimezone(pytz.UTC): the same instant, shown in UTC.
astimezone_utc(dt) == [utc |-> dt.utc, off |-> 0]

\* dt.strftime("%Y-%m-%dT%H:%M"): the wall-clock time in dt's timezone.
strftime(dt) == dt.utc + dt.off

\* etl.py fetch_flights: windows.
etl_windows(d) ==
    LET local_start == localize(strptime(d))
        local_mid   == plus(local_start, 12 * 60)
        local_end   == plus(local_start, 23 * 60 + 59)
    IN  <<<<astimezone_utc(local_start), astimezone_utc(local_mid)>>,
          <<astimezone_utc(plus(local_mid, 1)), astimezone_utc(local_end)>>>>

\* new_main.py fetch_flights: ranges.
new_main_ranges(d) ==
    LET day_start == localize(strptime(d))
        mid_day   == plus(day_start, 12 * 60)
        day_end   == plus(day_start, 23 * 60 + 59)
    IN  <<<<day_start, mid_day>>, <<plus(mid_day, 1), day_end>>>>

\* main.py fetch_flights_for_date: windows.
main_windows(d) ==
    LET start_day == localize(strptime(d))
    IN  <<<<start_day, plus(start_day, 12 * 60)>>,
          <<plus(start_day, 12 * 60), plus(start_day, 24 * 60)>>>>

\* The splitter of variant v.
SplitDay(v, d) ==
    IF v = "etl" THEN etl_windows(d)
    ELSE IF v = "new_main" THEN new_main_ranges(d)
    ELSE main_windows(d)

\* from_ts and to_ts of every window, as placed in the request URL.
FromTo(ws) == [j \in 1..Len(ws) |-> <<strftime(ws[j][1]), strftime(ws[j][2])>>]

\* etl.py: the local day is split at 12:00 and converted to UTC.
EtlWindows == FromTo(etl_windows(0))

\* new_main.py: the local boundaries are formatted as they are.
NewMainWindows == FromTo(new_main_ranges(0))

\* main.py fetch_flights_for_date: both windows share the instant 12:00.
MainWindows == FromTo(main_windows(0))

\* The sequences that list every element of a finite set once.
RECURSIVE Perms(_)
Perms(S) ==
    IF S = {} THEN {<<>>}
    ELSE UNION {{<<x>> \o t : t \in Perms(S \ {x})} : x \in S}

\* The legs the upstream lists for one window of a query of airport code.
WindowDepartures(legs, code, w) ==
    {l \in legs : /\ l.origin = code
                  /\ l.depSched # None
                  /\ w[1] <= Val(l.depSched) /\ Val(l.depSched) <= w[2]}

WindowArrivals(legs, code, w) ==
    {l \in legs : /\ l.dest = code
                  /\ l.arrSched # None
                  /\ w[1] <= Val(l.arrSched) /\ Val(l.arrSched) <= w[2]}

\* The bodies the upstream can answer one window with (status 200); the
\* order of the items is the upstream's choice.
WindowAnswers(legs, code, w) ==
    {[status_code |-> 200,
      departures |-> MapSeq(DepPayload, d),
      arrivals   |-> MapSeq(ArrPayload, a)] :
        d \in Perms(WindowDepartures(legs, code, w)),
        a \in Perms(WindowArrivals(legs, code, w))}

\* The answers to the requests of one fetch, one per window from window w on.
RECURSIVE AnswersFrom(_, _, _, _)
AnswersFrom(legs, code, ws, w) ==
    IF w > Len(ws) THEN {<<>>}
    ELSE {<<r>> \o rest :
            r \in WindowAnswers(legs, code, ws[w]),
            rest \in AnswersFrom(legs, code, ws, w + 1)}

Answers(legs, code, ws) == AnswersFrom(legs, code, ws, 1)

\* etl.py: a flight is packed unless its number was seen for its direction.
RECURSIVE EtlPack(_, _, _, _)
EtlPack(items, i, acc, dir) ==
    IF i > Len(items) THEN acc
    ELSE LET key == <<items[i].number, dir>>
         IN  IF key \in acc.seen
             THEN EtlPack(items, i + 1, acc, dir)
             ELSE EtlPack(items, i + 1,
                          [acc EXCEPT !.seen = @ \cup {key},
                                      ![dir] = Append(@, items[i])], dir)

\* etl.py fetch_flights over the responses of its windows: a 400 window is
\* skipped, any other status that is not 2xx raises.
RECURSIVE EtlFetchFrom(_, _, _)
EtlFetchFrom(resp, w, acc) ==
    IF w > Len(resp) THEN acc
    ELSE IF resp[w].status_code = 400 THEN EtlFetchFrom(resp, w + 1, acc)
    ELSE IF resp[w].status_code >= 400 THEN [acc EXCEPT !.raised = "HTTPError"]
    ELSE EtlFetchFrom(resp, w + 1,
            EtlPack(resp[w].arrivals, 1,
                    EtlPack(resp[w].departures, 1, acc, "departures"),
                    "arrivals"))

etl_fetch_flights(resp) ==
    EtlFetchFrom(resp, 1,
        [departures |-> <<>>, arrivals |-> <<>>, seen |-> {}, raised |-> "none"])

\* new_main.py fetch_flights: the payloads carry no "flight" object, so fid
\* is id(flight), distinct for every object: every flight is packed.
\* raise_for_status raises for every status that is not 2xx, 400 included.
RECURSIVE NewMainFetchFrom(_, _, _)
NewMainFetchFrom(resp, w, acc) ==
    IF w > Len(resp) THEN acc
    ELSE IF resp[w].status_code >= 400 THEN [acc EXCEPT !.raised = "HTTPError"]
    ELSE NewMainFetchFrom(resp, w + 1,
            [acc EXCEPT !.arrivals = @ \o resp[w].arrivals,
                        !.departures = @ \o resp[w].departures])

new_main_fetch_flights(resp) ==
    NewMainFetchFrom(resp, 1,
        [departures |-> <<>>, arrivals |-> <<>>, seen |-> {}, raised |-> "none"])

\* main.py fetch_flights_for_date: the lists of the windows are extended.
fetch_flights_for_date(resp) == new_main_fetch_flights(resp)

---------------------------------------------------------------------------
(* Persistence layer.  A table is the sequence of its rows in insertion    *)
(* order.                                                                  *)

\* schema.sql: the column each table is unique on.
AirportKey(r) == r.iata_code
AircraftKey(r) == r.registration
FlightKey(r) == r.flight_id

\* schema.sql: airport_delays has no unique column (append-only).
AirportDelaysUnique == FALSE

\* fetch_airport: the metadata record of an airport.
fetch_airport(code) == [iata |-> Some(code), fullName |-> Some(code)]

\* INSERT OR IGNORE INTO airport.
insert_airport(tbl, data) ==
    LET row == [iata_code |-> data.iata, name |-> data.fullName]
    IN  IF \E i \in 1..Len(tbl) : AirportKey(tbl[i]) = AirportKey(row)
        THEN tbl ELSE Append(tbl, row)

\* A plain INSERT INTO flights: the row is appended whatever its flight_id.
InsertFlightAlways(tbl, row) == Append(tbl, row)

\* An INSERT OR REPLACE INTO flights: the stored row of the same flight_id is
\* deleted and the new row is appended.
InsertOrReplaceFlight(tbl, row) ==
    Append(SelectSeq(tbl, LAMBDA r : FlightKey(r) # FlightKey(row)), row)

\* INSERT OR IGNORE INTO flights, one row.
InsertOrIgnoreFlight(tbl, row) ==
    IF \E i \in 1..Len(tbl) : FlightKey(tbl[i]) = FlightKey(row)
    THEN tbl ELSE Append(tbl, row)

RECURSIVE ExecuteMany(_, _, _)
ExecuteMany(tbl, records, i) ==
    IF i > Len(records) THEN tbl
    ELSE ExecuteMany(InsertOrIgnoreFlight(tbl, records[i]), records, i + 1)

\* new_main.py batch_insert_flights: nothing is done for an empty frame.
batch_insert_flights(tbl, frame) ==
    IF Len(frame) = 0 THEN tbl ELSE ExecuteMany(tbl, frame, 1)

\* main.py insert_flight: flight_id is the flight number.
MainFlightId(f) == <<f.number>>

MainRow(f, code) ==
    [flight_id |-> MainFlightId(f),
     flight_number |-> f.number,
     aircraft_registration |-> f.reg,
     origin_iata |-> Or(f.depAirport, Some(code)),
     destination_iata |-> Or(f.arrAirport, Some(code)),
     scheduled_departure |-> f.depSched,
     actual_departure |-> f.depActualLocal,
     scheduled_arrival |-> f.arrSched,
     actual_arrival |-> f.arrActualLocal,
     status |-> f.status,
     airline_code |-> f.airline]

insert_flight(tbl, f, code) == InsertOrIgnoreFlight(tbl, MainRow(f, code))

RECURSIVE InsertFlights(_, _, _, _)
InsertFlights(tbl, items, i, code) ==
    IF i > Len(items) THEN tbl
    ELSE InsertFlights(insert_flight(tbl, items[i], code), items, i + 1, code)

\* An upsert into airport_delays: the row of the same airport and date is
\* replaced, and the table never holds two rows for one pair.
UpsertAirportDelay(tbl, m) ==
    LET row == [airport_iata |-> m.airport_iata,
                delay_date |-> m.delay_date,
                total_flights |-> m.total_flights,
                delayed_flights |-> m.delayed_flights,
                avg_delay_min |-> m.avg_delay_min,
                median_delay_min |-> m.median_delay_min,
                canceled_flights |-> m.canceled_flights]
    IN  SelectSeq(tbl, LAMBDA r : ~(r.airport_iata = row.airport_iata
                                    /\ r.delay_date = row.delay_date))
        \o <<row>>

\* INSERT INTO airport_delays: a plain insert, into a table without a
\* unique column.
insert_airport_delay(tbl, m) ==
    LET row == [airport_iata |-> m.airport_iata,
                delay_date |-> m.delay_date,
                total_flights |-> m.total_flights,
                delayed_flights |-> m.delayed_flights,
                avg_delay_min |-> m.avg_delay_min,
                median_delay_min |-> m.median_delay_min,
                canceled_flights |-> m.canceled_flights]
    IN  IF AirportDelaysUnique
           /\ \E i \in 1..Len(tbl) : /\ tbl[i].airport_iata = row.airport_iata
                                     /\ tbl[i].delay_date = row.delay_date
        THEN tbl
        ELSE Append(tbl, row)

\* The responses of the aircraft endpoint: the record of a registration,
\* a 200 with an empty body, and a status without a body.
AircraftFound(registration) ==
    [status_code |-> 200, text |-> Some([reg |-> registration, modelCode |-> "B738"])]
AircraftEmpty == [status_code |-> 200, text |-> None]
AircraftStatus(code) == [status_code |-> code, text |-> None]

\* fetch_aircraft_data, from the response on: None unless the status is 200
\* and the body is not empty.
AircraftResult(r) ==
    IF r.status_code # 200 \/ r.text = None THEN None ELSE r.text

\* fetch_aircraft_data against an upstream that answers 200 for the
\* registrations of db and 404 for every other.
fetch_aircraft_data(db, registration) ==
    AircraftResult(IF registration \in db
                   THEN AircraftFound(registration)
                   ELSE AircraftStatus(404))

\* An insert_aircraft that stores a row without registration for None.
InsertAircraftBlank(tbl, data) ==
    IF data = None THEN Append(tbl, [registration |-> None, model |-> ""])
    ELSE LET row == [registration |-> Val(data).reg, model |-> Val(data).modelCode]
         IN  IF \E i \in 1..Len(tbl) : tbl[i].registration = row.registration
             THEN tbl ELSE Append(tbl, row)

\* insert_aircraft: nothing for None, INSERT OR IGNORE otherwise.
insert_aircraft(tbl, data) ==
    IF data = None THEN tbl
    ELSE LET row == [registration |-> Val(data).reg, model |-> Val(data).modelCode]
         IN  IF \E i \in 1..Len(tbl) : AircraftKey(tbl[i]) = AircraftKey(row)
             THEN tbl ELSE Append(tbl, row)

\* Whether sqlite3 can raise in a call of insert_aircraft: the database is
\* not touched for None.
DbOutcomes(data) == IF data = None THEN {FALSE} ELSE BOOLEAN

\* An insert_aircraft without its except clauses: the error of the INSERT
\* leaves the function.
InsertAircraftUncaught(tbl, data, db_error) ==
    IF data # None /\ db_error
    THEN [table |-> tbl, raised |-> "sqlite3.Error"]
    ELSE [table |-> insert_aircraft(tbl, data), raised |-> "none"]

\* insert_aircraft with the outcome of its INSERT: when cursor.execute raises
\* sqlite3.Error no row is written, the except clause prints the error and
\* the function returns; raised is the exception that leaves the function.
InsertAircraftOutcome(tbl, data, db_error) ==
    IF data # None /\ db_error
    THEN [table |-> tbl, raised |-> "none"]
    ELSE [table |-> insert_aircraft(tbl, data), raised |-> "none"]

\* etl.py run_etl: the loop over the registry, in the order regs.
RECURSIVE EnrichLoop(_, _, _, _)
EnrichLoop(tbl, regs, i, db) ==
    IF i > Len(regs) THEN tbl
    ELSE IF regs[i] # None
         THEN EnrichLoop(insert_aircraft(tbl, fetch_aircraft_data(db, regs[i])),
                         regs, i + 1, db)
         ELSE EnrichLoop(tbl, regs, i + 1, db)

---------------------------------------------------------------------------
(* The delay step of a per-airport sequence *)

\* What the delay computation of variant v leaves behind: the exception it
\* ended with, the delay columns and (etl.py) the metrics dict.
DelayStep(v, frame, code) ==
    IF v = "etl"
    THEN LET m == compute_airport_delay_metrics(frame, code, DATE)
         IN  [error   |-> m.raised,
              cols    |-> IF m.raised = "KeyError" THEN NoCols
                          ELSE EtlDelayCols(frame, code),
              metrics |-> IF m.raised = "none" THEN m ELSE NoMetrics]
    ELSE \* new_main.py: flights_df["origin_iata"] raises KeyError on a frame
         \* without columns; the except clause of run_etl logs it.
         [error   |-> IF Len(frame) = 0 THEN "KeyError" ELSE "none",
          cols    |-> IF Len(frame) = 0 THEN NoCols
                      ELSE NewMainDelayCols(frame, code),
          metrics |-> NoMetrics]

---------------------------------------------------------------------------
(* Initial states *)

\* The registry literal of etl.py, cut to two of its entries.
RegistrySeed == {Some("EW-456PA"), Some("VT-ANA")}

RECURSIVE SetsUpTo(_, _)
SetsUpTo(S, n) ==
    IF n = 0 THEN {{}}
    ELSE LET smaller == SetsUpTo(S, n - 1)
         IN  smaller \cup {t \cup {x} : t \in smaller, x \in S}

\* The legs of the pipeline model: BaseLeg, the same flight number at another
\* scheduled time, and the legs of another airline, route or aircraft.
WorldLegs ==
    {BaseLeg,
     MkLeg(Some("AI"), Some("Departed"), Some("VT-ANA"), "DEL", "BOM", DepEarly, ArrNoRev)}
    \cup {l \in OtherLegs : l.status = Some("Departed") /\ l.origin # l.dest}

\* The upstream knows the aircraft VT-ANA and has no record of EW-456PA.
Worlds ==
    {[legs |-> L, aircraftDb |-> {Some("VT-ANA")}] : L \in SetsUpTo(WorldLegs, MaxLegs)}

NoFlights == [departures |-> <<>>, arrivals |-> <<>>]

Init ==
    /\ world \in Worlds
    /\ pc = "idle"
    /\ variant = "etl"
    /\ iata = AIRPORTS[1]
    /\ fetched = NoFlights
    /\ df = <<>>
    /\ delayCols = NoCols
    /\ metrics = NoMetrics
    /\ airport = <<>>
    /\ aircraft = <<>>
    /\ flights = <<>>
    /\ airport_delays = <<>>
    /\ AIRCRAFT_REGISTRATIONS = RegistrySeed
    /\ error = "none"
    /\ runs = 0
    /\ rerun = FALSE
    /\ date = 0
    /\ windows = <<>>
    /\ responses = <<>>
    /\ calls = <<>>
    /\ attempted = <<>>
    /\ steps = <<>>
    /\ todo = <<>>
    /\ aircraft_data = None
    /\ lookups = <<>>
    /\ db_errors = <<>>

---------------------------------------------------------------------------
(* The per-airport sequences.  Each action is one whole sequence: the code *)
(* is sequential and nothing else runs between its steps.                  *)

\* The sequence of variant v for airport a, with fetch result fl, repeats the
\* sequence that ran last: same module, same airport, same payloads.
SameRun(v, a, fl) ==
    /\ pc = "done"
    /\ variant = v
    /\ iata = a
    /\ fetched = [departures |-> fl.departures, arrivals |-> fl.arrivals]

\* new_main.py run_etl, the body of the try block for one airport.
NewMainRunAirport(a) ==
    /\ runs < MaxRuns
    /\ \E resp \in Answers(world.legs, a, NewMainWindows) :
         LET fl    == new_main_fetch_flights(resp)
             frame == flights_to_dataframe("new_main", fl, a)
             step  == DelayStep("new_main", frame, a)
         IN  /\ airport' = insert_airport(airport, fetch_airport(a))
             /\ rerun' = SameRun("new_main", a, fl)
             /\ fetched' = [departures |-> fl.departures, arrivals |-> fl.arrivals]
             /\ df' = frame
             /\ flights' = batch_insert_flights(flights, frame)
             /\ delayCols' = step.cols
             /\ error' = step.error
    /\ pc' = "done"
    /\ variant' = "new_main"
    /\ iata' = a
    /\ metrics' = NoMetrics
    /\ runs' = runs + 1
    /\ UNCHANGED <<world, aircraft, airport_delays, AIRCRAFT_REGISTRATIONS>>
    /\ UNCHANGED callvars
    /\ UNCHANGED orchvars

\* etl.py: the functions of the per-airport block of run_etl applied in the
\* order of that block: insert_airport, fetch_flights, flights_to_dataframe,
\* compute_airport_delay_metrics, insert_airport_delay.  run_etl holds the
\* block as a comment; its df.to_sql line is no function of the module and
\* is left out, so this sequence does not write the flights table.
EtlRunAirport(a) ==
    /\ runs < MaxRuns
    /\ \E resp \in Answers(world.legs, a, EtlWindows) :
         LET fl    == etl_fetch_flights(resp)
             frame == flights_to_dataframe("etl", fl, a)
             step  == DelayStep("etl", frame, a)
         IN  /\ airport' = insert_airport(airport, fetch_airport(a))
             /\ rerun' = SameRun("etl", a, fl)
             /\ fetched' = [departures |-> fl.departures, arrivals |-> fl.arrivals]
             /\ AIRCRAFT_REGISTRATIONS' = AIRCRAFT_REGISTRATIONS \cup SeenRegistrations(fl)
             /\ df' = frame
             /\ delayCols' = step.cols
             /\ metrics' = step.metrics
             /\ error' = step.error
             /\ airport_delays' =
                    IF step.error = "none"
                    THEN insert_airport_delay(airport_delays, step.metrics)
                    ELSE airport_delays
    /\ pc' = "done"
    /\ variant' = "etl"
    /\ iata' = a
    /\ runs' = runs + 1
    /\ UNCHANGED <<world, aircraft, flights>>
    /\ UNCHANGED callvars
    /\ UNCHANGED orchvars

\* main.py run_etl, the body of the try block for one airport.
MainRunAirport(a) ==
    /\ runs < MaxRuns
    /\ \E resp \in Answers(world.legs, a, MainWindows) :
         LET fl == fetch_flights_for_date(resp)
         IN  /\ airport' = insert_airport(airport, fetch_airport(a))
             /\ rerun' = SameRun("main", a, fl)
             /\ fetched' = [departures |-> fl.departures, arrivals |-> fl.arrivals]
             /\ flights' = InsertFlights(InsertFlights(flights, fl.arrivals, 1, a),
                                         fl.departures, 1, a)
    /\ pc' = "done"
    /\ variant' = "main"
    /\ iata' = a
    /\ df' = <<>>
    /\ delayCols' = NoCols
    /\ metrics' = NoMetrics
    /\ error' = "none"
    /\ runs' = runs + 1
    /\ UNCHANGED <<world, aircraft, airport_delays, AIRCRAFT_REGISTRATIONS>>
    /\ UNCHANGED callvars
    /\ UNCHANGED orchvars

\* etl.py run_etl: the aircraft enrichment loop over the registry.
EnrichAircraft ==
    /\ runs < MaxRuns
    /\ \E regs \in Perms(AIRCRAFT_REGISTRATIONS) :
         aircraft' = EnrichLoop(aircraft, regs, 1, world.aircraftDb)
    /\ pc' = "enriched"
    /\ variant' = "etl"
    /\ error' = "none"
    /\ runs' = runs + 1
    /\ rerun' = (pc = "enriched")
    /\ UNCHANGED <<world, iata, fetched, df, delayCols, metrics, airport,
                   flights, airport_delays, AIRCRAFT_REGISTRATIONS>>
    /\ UNCHANGED callvars
    /\ UNCHANGED orchvars

Next ==
    \/ \E a \in Airports : NewMainRunAirport(a)
    \/ \E a \in Airports : EtlRunAirport(a)
    \/ \E a \in Airports : MainRunAirport(a)
    \/ EnrichAircraft

Spec == Init /\ [][Next]_vars

---------------------------------------------------------------------------
(* The functions on their own: flights_to_dataframe and the delay step on  *)
(* every bounded fetch result.                                             *)

\* The fetch results with at most MaxRows items in both lists together.
FetchResultsOf(k, j) ==
    {[departures |-> MapSeq(DepPayload, d), arrivals |-> MapSeq(ArrPayload, a)] :
        d \in [1..k -> Legs], a \in [1..j -> Legs]}

FetchResults ==
    UNION {FetchResultsOf(kj[1], kj[2]) :
            kj \in {x \in (0..MaxRows) \X (0..MaxRows) : x[1] + x[2] <= MaxRows}}

InitFn ==
    /\ world = [legs |-> {}, aircraftDb |-> {}]
    /\ fetched \in FetchResults
    /\ pc = "fetched"
    /\ variant \in {"etl", "new_main"}
    /\ iata \in Airports
    /\ df = <<>>
    /\ delayCols = NoCols
    /\ metrics = NoMetrics
    /\ airport = <<>>
    /\ aircraft = <<>>
    /\ flights = <<>>
    /\ airport_delays = <<>>
    /\ AIRCRAFT_REGISTRATIONS = RegistrySeed
    /\ error = "none"
    /\ runs = 0
    /\ rerun = FALSE
    /\ date = 0
    /\ windows = <<>>
    /\ responses = <<>>
    /\ calls = <<>>
    /\ attempted = <<>>
    /\ steps = <<>>
    /\ todo = <<>>
    /\ aircraft_data = None
    /\ lookups = <<>>
    /\ db_errors = <<>>

\* flights_to_dataframe(flights, iata) of the running variant, on a given
\* fetch result or on the one fetch_flights has returned.
Normalize ==
    /\ pc \in {"fetched", "returned"}
    /\ variant \in {"etl", "new_main"}
    /\ df' = flights_to_dataframe(variant, fetched, iata)
    /\ AIRCRAFT_REGISTRATIONS' =
          IF variant = "etl"
          THEN AIRCRAFT_REGISTRATIONS \cup SeenRegistrations(fetched)
          ELSE AIRCRAFT_REGISTRATIONS
    /\ pc' = "framed"
    /\ UNCHANGED <<world, variant, iata, fetched, delayCols, metrics, airport,
                   aircraft, flights, airport_delays, error, runs, rerun>>
    /\ UNCHANGED callvars
    /\ UNCHANGED orchvars

\* compute_airport_delay_metrics(df, iata, date) of etl.py, or the delay
\* columns of new_main.py run_etl.
ComputeDelays ==
    /\ pc = "framed"
    /\ LET step == DelayStep(variant, df, iata)
       IN  /\ delayCols' = step.cols
           /\ metrics' = step.metrics
           /\ error' = step.error
    /\ pc' = "computed"
    /\ UNCHANGED <<world, variant, iata, fetched, df, airport, aircraft,
                   flights, airport_delays, AIRCRAFT_REGISTRATIONS, runs, rerun>>
    /\ UNCHANGED callvars
    /\ UNCHANGED orchvars

NextFn == Normalize \/ ComputeDelays

SpecFn == InitFn /\ [][NextFn]_vars

---------------------------------------------------------------------------
(* fetch_flights: the splitter, then the requests of the windows, each     *)
(* answered 200, 400 or 500, then the frame and the delays of its result.  *)

Dates == 0..MaxDay

\* A response of which only the status is read.
StatusResponse(code) == [status_code |-> code, departures |-> <<>>, arrivals |-> <<>>]

\* The sets of flights the upstream can list for a window: the flights
\* scheduled in it (must) and any further flights of the airport (all).
\* Which window a flight at the split, or one revised across it, belongs
\* to is the upstream's choice, so both windows can list the same flight.
Listings(all, must) == {D \in SUBSET all : must \subseteq D}

\* The bodies (status 200) of one window that list such sets.
WindowListings(legs, code, w) ==
    {[status_code |-> 200,
      departures |-> MapSeq(DepPayload, d),
      arrivals   |-> MapSeq(ArrPayload, a)] :
        d \in UNION {Perms(D) :
                D \in Listings({l \in legs : l.origin = code /\ l.depSched # None},
                               WindowDepartures(legs, code, w))},
        a \in UNION {Perms(A) :
                A \in Listings({l \in legs : l.dest = code /\ l.arrSched # None},
                               WindowArrivals(legs, code, w))}}

\* What the upstream can answer the request of one window with.
WindowResponses(legs, code, w) ==
    WindowListings(legs, code, w) \cup {StatusResponse(400), StatusResponse(500)}

\* requests' Response.raise_for_status(): raises for 4xx and 5xx.
raise_for_status(r) == r.status_code >= 400

\* The request of a window ends the call of variant v with an exception.
Raises(v, r) ==
    IF v = "etl" THEN r.status_code # 400 /\ raise_for_status(r)
    ELSE raise_for_status(r)

\* The responses to the requests one call of variant v issues from window
\* w on: no request follows the one that raised.
RECURSIVE IssuedFrom(_, _, _, _, _)
IssuedFrom(v, legs, code, ws, w) ==
    IF w > Len(ws) THEN {<<>>}
    ELSE UNION {{<<r>> \o rest :
                    rest \in IF Raises(v, r) THEN {<<>>}
                             ELSE IssuedFrom(v, legs, code, ws, w + 1)} :
                r \in WindowResponses(legs, code, ws[w])}

\* fetch_flights (fetch_flights_for_date) of variant v over its responses.
FetchOf(v, resp) ==
    IF v = "etl" THEN etl_fetch_flights(resp)
    ELSE IF v = "new_main" THEN new_main_fetch_flights(resp)
    ELSE fetch_flights_for_date(resp)

\* etl.py fetch_flights: the requests and sleeps of the window loop; the
\* `continue` of a 400 window passes over time.sleep(1.5).
RECURSIVE EtlCallsFrom(_, _)
EtlCallsFrom(resp, w) ==
    IF w > Len(resp) THEN <<>>
    ELSE IF resp[w].status_code = 400 THEN <<"GET">> \o EtlCallsFrom(resp, w + 1)
    ELSE IF raise_for_status(resp[w]) THEN <<"GET">>
    ELSE <<"GET", "sleep">> \o EtlCallsFrom(resp, w + 1)

\* new_main.py fetch_flights and main.py fetch_flights_for_date: the window
\* loop holds no sleep.
RECURSIVE NewMainCallsFrom(_, _)
NewMainCallsFrom(resp, w) ==
    IF w > Len(resp) THEN <<>>
    ELSE IF raise_for_status(resp[w]) THEN <<"GET">>
    ELSE <<"GET">> \o NewMainCallsFrom(resp, w + 1)

FetchCalls(v, resp) ==
    IF v = "etl" THEN EtlCallsFrom(resp, 1) ELSE NewMainCallsFrom(resp, 1)

InitFetch ==
    /\ world \in Worlds
    /\ variant \in Variants
    /\ iata \in Airports
    /\ date \in Dates
    /\ pc = "call"
    /\ fetched = NoFlights
    /\ df = <<>>
    /\ delayCols = NoCols
    /\ metrics = NoMetrics
    /\ airport = <<>>
    /\ aircraft = <<>>
    /\ flights = <<>>
    /\ airport_delays = <<>>
    /\ AIRCRAFT_REGISTRATIONS = RegistrySeed
    /\ error = "none"
    /\ runs = 0
    /\ rerun = FALSE
    /\ windows = <<>>
    /\ responses = <<>>
    /\ calls = <<>>
    /\ attempted = <<>>
    /\ steps = <<>>
    /\ todo = <<>>
    /\ aircraft_data = None
    /\ lookups = <<>>
    /\ db_errors = <<>>

\* The splitter: the windows of the local day.
SplitWindows ==
    /\ pc = "call"
    /\ windows' = SplitDay(variant, date)
    /\ pc' = "split"
    /\ UNCHANGED <<world, variant, iata, fetched, df, delayCols, metrics, airport,
                   aircraft, flights, airport_delays, AIRCRAFT_REGISTRATIONS,
                   error, runs, rerun, date, responses, calls>>
    /\ UNCHANGED orchvars

\* The window loop: the call returns its two lists or raises.
RequestWindows ==
    /\ pc = "split"
    /\ \E resp \in IssuedFrom(variant, world.legs, iata, FromTo(windows), 1) :
         LET fl == FetchOf(variant, resp)
         IN  /\ responses' = resp
             /\ calls' = calls \o FetchCalls(variant, resp)
             /\ error' = fl.raised
             /\ fetched' = IF fl.raised = "none"
                           THEN [departures |-> fl.departures, arrivals |-> fl.arrivals]
                           ELSE NoFlights
             /\ pc' = IF fl.raised = "none" THEN "returned" ELSE "raised"
    /\ UNCHANGED <<world, variant, iata, df, delayCols, metrics, airport,
                   aircraft, flights, airport_delays, AIRCRAFT_REGISTRATIONS,
                   runs, rerun, date, windows>>
    /\ UNCHANGED orchvars

\* The call, and what the caller does with its result: the frame and the
\* delay computation.
NextFetch == SplitWindows \/ RequestWindows \/ Normalize \/ ComputeDelays

SpecFetch == InitFetch /\ [][NextFetch]_vars

---------------------------------------------------------------------------
(* run_etl step by step: the airport loop of new_main.py and main.py, and  *)
(* the aircraft loop of etl.py.                                            *)

\* What the aircraft endpoint can answer a lookup with: the record or a
\* server error for a registration it knows; 404, an empty body or a
\* server error for one it does not know.
AircraftResponses(db, registration) ==
    IF registration \in db
    THEN {AircraftFound(registration), AircraftStatus(500)}
    ELSE {AircraftStatus(404), AircraftEmpty, AircraftStatus(500)}

\* The upstream of the step-level run knows VT-ANA, or both aircraft of the
\* registry.
OrchWorlds ==
    {[w EXCEPT !.aircraftDb = db] : w \in Worlds, db \in {{Some("VT-ANA")}, RegistrySeed}}

InitOrch ==
    /\ world \in OrchWorlds
    /\ variant \in Variants
    /\ pc = "start"
    /\ iata = AIRPORTS[1]
    /\ fetched = NoFlights
    /\ df = <<>>
    /\ delayCols = NoCols
    /\ metrics = NoMetrics
    /\ airport = <<>>
    /\ aircraft = <<>>
    /\ flights = <<>>
    /\ airport_delays = <<>>
    /\ AIRCRAFT_REGISTRATIONS = RegistrySeed
    /\ error = "none"
    /\ runs = 0
    /\ rerun = FALSE
    /\ date = 0
    /\ windows = <<>>
    /\ responses = <<>>
    /\ calls = <<>>
    /\ attempted = <<>>
    /\ steps = <<>>
    /\ todo = <<>>
    /\ aircraft_data = None
    /\ lookups = <<>>
    /\ db_errors = <<>>

\* run_etl is entered, at the start of the program or after the caller has
\* built a frame.  etl.py goes to its aircraft loop, which visits the
\* registry in the iteration order of the set; new_main.py and main.py go to
\* their airport loop.
RunEtlStart ==
    /\ pc \in {"start", "framed"}
    /\ IF variant = "etl"
       THEN /\ todo' \in Perms(AIRCRAFT_REGISTRATIONS)
            /\ pc' = IF AIRCRAFT_REGISTRATIONS = {} THEN "exit" ELSE "aircraft_loop"
       ELSE /\ todo' = <<>>
            /\ pc' = "loop"
    /\ UNCHANGED <<world, variant, iata, fetched, df, delayCols, metrics, airport,
                   aircraft, flights, airport_delays, AIRCRAFT_REGISTRATIONS,
                   error, runs, rerun, attempted, steps, aircraft_data,
                   lookups, db_errors>>
    /\ UNCHANGED callvars

\* for iata in AIRPORTS: the next airport of the list, and the try block
\* is entered.
LoopNext ==
    /\ pc = "loop"
    /\ Len(attempted) < NumAirports
    /\ iata' = AIRPORTS[Len(attempted) + 1]
    /\ attempted' = Append(attempted, AIRPORTS[Len(attempted) + 1])
    /\ steps' = <<>>
    /\ pc' = "fetch_airport"
    /\ UNCHANGED <<world, variant, fetched, df, delayCols, metrics, airport,
                   aircraft, flights, airport_delays, AIRCRAFT_REGISTRATIONS,
                   error, runs, rerun, todo, aircraft_data, lookups, db_errors>>
    /\ UNCHANGED callvars

\* fetch_airport and insert_airport; fetch_airport raises unless the
\* lookup is answered 2xx.
FetchAirportStep ==
    /\ pc = "fetch_airport"
    /\ calls' = Append(calls, "GET")
    /\ \E r \in {StatusResponse(200), StatusResponse(500)} :
         IF raise_for_status(r)
         THEN /\ error' = "HTTPError"
              /\ pc' = "except"
              /\ UNCHANGED <<airport, steps>>
         ELSE /\ airport' = insert_airport(airport, fetch_airport(iata))
              /\ steps' = Append(steps, "FetchAirport")
              /\ pc' = "sleep"
              /\ UNCHANGED error
    /\ UNCHANGED <<world, variant, iata, fetched, df, delayCols, metrics,
                   aircraft, flights, airport_delays, AIRCRAFT_REGISTRATIONS,
                   runs, rerun, attempted, todo, aircraft_data, lookups,
                   db_errors, date, windows, responses>>

\* time.sleep(2) between the airport lookup and fetch_flights.
SleepStep ==
    /\ pc = "sleep"
    /\ calls' = Append(calls, "sleep")
    /\ pc' = "fetch_flights"
    /\ UNCHANGED <<world, variant, iata, fetched, df, delayCols, metrics, airport,
                   aircraft, flights, airport_delays, AIRCRAFT_REGISTRATIONS,
                   error, runs, rerun, date, windows, responses>>
    /\ UNCHANGED orchvars

\* fetch_flights (new_main.py) or fetch_flights_for_date (main.py).
FetchFlightsStep ==
    /\ pc = "fetch_flights"
    /\ windows' = SplitDay(variant, date)
    /\ \E resp \in IssuedFrom(variant, world.legs, iata,
                              FromTo(SplitDay(variant, date)), 1) :
         LET fl == FetchOf(variant, resp)
         IN  /\ responses' = resp
             /\ calls' = calls \o FetchCalls(variant, resp)
             /\ IF fl.raised # "none"
                THEN /\ error' = fl.raised
                     /\ pc' = "except"
                     /\ UNCHANGED <<fetched, steps>>
                ELSE /\ fetched' = [departures |-> fl.departures,
                                     arrivals |-> fl.arrivals]
                     /\ steps' = Append(steps, "FetchFlights")
                     /\ pc' = IF variant = "new_main" THEN "normalize" ELSE "persist"
                     /\ UNCHANGED error
    /\ UNCHANGED <<world, variant, iata, df, delayCols, metrics, airport,
                   aircraft, flights, airport_delays, AIRCRAFT_REGISTRATIONS,
                   runs, rerun, date, attempted, todo, aircraft_data,
                   lookups, db_errors>>

\* new_main.py: flights_df = flights_to_dataframe(flights, iata).
NormalizeStep ==
    /\ pc = "normalize"
    /\ df' = flights_to_dataframe("new_main", fetched, iata)
    /\ steps' = Append(steps, "Normalize")
    /\ pc' = "persist"
    /\ UNCHANGED <<world, variant, iata, fetched, delayCols, metrics, airport,
                   aircraft, flights, airport_delays, AIRCRAFT_REGISTRATIONS,
                   error, runs, rerun, attempted, todo, aircraft_data,
                   lookups, db_errors>>
    /\ UNCHANGED callvars

\* new_main.py: batch_insert_flights; main.py: insert_flight for every
\* arrival, then for every departure.
PersistFlightsStep ==
    /\ pc = "persist"
    /\ flights' =
          IF variant = "new_main"
          THEN batch_insert_flights(flights, df)
          ELSE InsertFlights(InsertFlights(flights, fetched.arrivals, 1, iata),
                             fetched.departures, 1, iata)
    /\ steps' = Append(steps, "PersistFlights")
    /\ pc' = IF variant = "new_main" THEN "delay" ELSE "break"
    /\ UNCHANGED <<world, variant, iata, fetched, df, delayCols, metrics, airport,
                   aircraft, airport_delays, AIRCRAFT_REGISTRATIONS,
                   error, runs, rerun, attempted, todo, aircraft_data,
                   lookups, db_errors>>
    /\ UNCHANGED callvars

\* new_main.py: the delay columns; the try block ends with them.
ComputeDelayStep ==
    /\ pc = "delay"
    /\ LET step == DelayStep("new_main", df, iata)
       IN  /\ delayCols' = step.cols
           /\ error' = step.error
           /\ IF step.error = "none"
              THEN /\ steps' = Append(steps, "ComputeDelayMetrics")
                   /\ pc' = "break"
              ELSE /\ steps' = steps
                   /\ pc' = "except"
    /\ UNCHANGED <<world, variant, iata, fetched, df, metrics, airport,
                   aircraft, flights, airport_delays, AIRCRAFT_REGISTRATIONS,
                   runs, rerun, attempted, todo, aircraft_data,
                   lookups, db_errors>>
    /\ UNCHANGED callvars

\* except Exception as e: the error is printed.
ExceptStep ==
    /\ pc = "except"
    /\ pc' = "break"
    /\ UNCHANGED <<world, variant, iata, fetched, df, delayCols, metrics, airport,
                   aircraft, flights, airport_delays, AIRCRAFT_REGISTRATIONS,
                   error, runs, rerun>>
    /\ UNCHANGED callvars
    /\ UNCHANGED orchvars

\* The break that ends the body of the airport loop: run_etl returns.
BreakStep ==
    /\ pc = "break"
    /\ pc' = "exit"
    /\ UNCHANGED <<world, variant, iata, fetched, df, delayCols, metrics, airport,
                   aircraft, flights, airport_delays, AIRCRAFT_REGISTRATIONS,
                   error, runs, rerun>>
    /\ UNCHANGED callvars
    /\ UNCHANGED orchvars

\* etl.py run_etl: one pass of the aircraft loop: the lookup and the insert
\* unless reg is None, then time.sleep(1.5).  An exception that left
\* insert_aircraft would leave the loop and run_etl.
EnrichNext ==
    /\ pc = "aircraft_loop"
    /\ todo # <<>>
    /\ IF Head(todo) # None
       THEN \E r \in AircraftResponses(world.aircraftDb, Head(todo)) :
            \E db_error \in DbOutcomes(AircraftResult(r)) :
               LET out == InsertAircraftOutcome(aircraft, AircraftResult(r), db_error)
               IN  /\ responses' = Append(responses, r)
                   /\ lookups' = Append(lookups, Head(todo))
                   /\ aircraft_data' = AircraftResult(r)
                   /\ aircraft' = out.table
                   /\ db_errors' = IF db_error THEN Append(db_errors, Head(todo))
                                   ELSE db_errors
                   /\ error' = out.raised
                   /\ IF out.raised = "none"
                      THEN /\ calls' = calls \o <<"GET", "sleep">>
                           /\ todo' = Tail(todo)
                           /\ pc' = IF Tail(todo) = <<>> THEN "exit" ELSE "aircraft_loop"
                      ELSE /\ calls' = Append(calls, "GET")
                           /\ todo' = todo
                           /\ pc' = "raised"
       ELSE /\ calls' = Append(calls, "sleep")
            /\ todo' = Tail(todo)
            /\ pc' = IF Tail(todo) = <<>> THEN "exit" ELSE "aircraft_loop"
            /\ UNCHANGED <<responses, aircraft_data, aircraft, lookups, db_errors, error>>
    /\ UNCHANGED <<world, variant, iata, fetched, df, delayCols, metrics, airport,
                   flights, airport_delays, AIRCRAFT_REGISTRATIONS,
                   runs, rerun, date, windows, attempted, steps>>

NextOrch ==
    \/ RunEtlStart
    \/ LoopNext
    \/ FetchAirportStep
    \/ SleepStep
    \/ FetchFlightsStep
    \/ NormalizeStep
    \/ PersistFlightsStep
    \/ ComputeDelayStep
    \/ ExceptStep
    \/ BreakStep
    \/ EnrichNext

SpecOrch == InitOrch /\ [][NextOrch]_vars

---------------------------------------------------------------------------
(* The registry of etl.py across calls: flights_to_dataframe on a fetch    *)
(* result, then run_etl.                                                   *)

\* Flights of three aircraft: VT-ANA, one without registration, and one the
\* registry literal does not hold.
RegistryLegs ==
    {BaseLeg, [BaseLeg EXCEPT !.reg = None], [BaseLeg EXCEPT !.reg = Some("VT-ANB")]}

\* The fetch results over these flights with at most MaxRows items.
RegistryFetchResults ==
    UNION {{[departures |-> MapSeq(DepPayload, d), arrivals |-> MapSeq(ArrPayload, a)] :
                d \in [1..kj[1] -> RegistryLegs], a \in [1..kj[2] -> RegistryLegs]} :
            kj \in {x \in (0..MaxRows) \X (0..MaxRows) : x[1] + x[2] <= MaxRows}}

InitReg ==
    /\ world = [legs |-> {}, aircraftDb |-> {Some("VT-ANA")}]
    /\ fetched \in RegistryFetchResults
    /\ pc = "fetched"
    /\ variant = "etl"
    /\ iata = AIRPORTS[1]
    /\ df = <<>>
    /\ delayCols = NoCols
    /\ metrics = NoMetrics
    /\ airport = <<>>
    /\ aircraft = <<>>
    /\ flights = <<>>
    /\ airport_delays = <<>>
    /\ AIRCRAFT_REGISTRATIONS = RegistrySeed
    /\ error = "none"
    /\ runs = 0
    /\ rerun = FALSE
    /\ date = 0
    /\ windows = <<>>
    /\ responses = <<>>
    /\ calls = <<>>
    /\ attempted = <<>>
    /\ steps = <<>>
    /\ todo = <<>>
    /\ aircraft_data = None
    /\ lookups = <<>>
    /\ db_errors = <<>>

NextReg == Normalize \/ RunEtlStart \/ EnrichNext

SpecReg == InitReg /\ [][NextReg]_vars

---------------------------------------------------------------------------
(* Claims *)

Max0(x) == IF x > 0 THEN x ELSE 0

\* The items of a list, as a set.
Items(list) == {list[i] : i \in 1..Len(list)}

\* The flight_id the running variant gives a payload on either side.
DepFlightIdOf(v, p) == IF v = "etl" THEN EtlDepFlightId(p) ELSE NewMainDepFlightId(p)
ArrFlightIdOf(v, p) == IF v = "etl" THEN EtlArrFlightId(p) ELSE NewMainArrFlightId(p)

\* The rows of a frame or table that describe leg l.
LegRows(rows, l) ==
    {i \in 1..Len(rows) :
        /\ rows[i].flight_number = l.number
        /\ rows[i].airline_code = l.airline
        /\ rows[i].aircraft_registration = l.reg
        /\ rows[i].status = l.status
        /\ rows[i].origin_iata = Some(l.origin)
        /\ rows[i].destination_iata = Some(l.dest)
        /\ rows[i].scheduled_departure = l.depSched
        /\ rows[i].scheduled_arrival = l.arrSched}

\* C1: a leg whose departures-side payload and arrivals-side payload are both
\* in the input of flights_to_dataframe gets the same flight_id from both,
\* and the returned frame holds exactly one row with it.
C1_SameKeyOneRow ==
    pc \in {"framed", "computed"} =>
        \A l \in Legs :
            (DepPayload(l) \in Items(fetched.departures)
             /\ ArrPayload(l) \in Items(fetched.arrivals))
            => /\ DepFlightIdOf(variant, DepPayload(l)) = ArrFlightIdOf(variant, ArrPayload(l))
               /\ Cardinality({i \in 1..Len(df) :
                     df[i].flight_id \in {DepFlightIdOf(variant, DepPayload(l)),
                                          ArrFlightIdOf(variant, ArrPayload(l))}}) = 1

\* C2: once new_main.py has run for airport A and then for airport B, a leg
\* from A to B that A's query returned as a departure and B's query as an
\* arrival occupies exactly one row of flights.
C2_OneRowAcrossAirports ==
    (pc = "done" /\ variant = "new_main") =>
        \A l \in world.legs :
            (/\ l.origin # l.dest
             /\ l.dest = iata
             /\ ArrPayload(l) \in Items(fetched.arrivals)
             /\ \E i \in LegRows(flights, l) :
                    flights[i].flight_id = NewMainDepFlightId(DepPayload(l)))
            => Cardinality(LegRows(flights, l)) = 1

\* C3: in every variant that writes the flights table, two flights of one
\* fetch that differ in the scheduled time of the queried side or in airline
\* code are stored as two distinct rows.
C3_DistinctFlightsDistinctRows ==
    (pc = "done" /\ variant \in {"main", "new_main"}) =>
        /\ \A p, q \in Items(fetched.departures) :
              (p.depSched # q.depSched \/ p.airline # q.airline)
              => \E i, j \in 1..Len(flights) :
                    /\ i # j
                    /\ flights[i].flight_number = p.number
                    /\ flights[i].airline_code = p.airline
                    /\ flights[i].scheduled_departure = p.depSched
                    /\ flights[j].flight_number = q.number
                    /\ flights[j].airline_code = q.airline
                    /\ flights[j].scheduled_departure = q.depSched
        /\ \A p, q \in Items(fetched.arrivals) :
              (p.arrSched # q.arrSched \/ p.airline # q.airline)
              => \E i, j \in 1..Len(flights) :
                    /\ i # j
                    /\ flights[i].flight_number = p.number
                    /\ flights[i].airline_code = p.airline
                    /\ flights[i].scheduled_arrival = p.arrSched
                    /\ flights[j].flight_number = q.number
                    /\ flights[j].airline_code = q.airline
                    /\ flights[j].scheduled_arrival = q.arrSched

\* No two rows of a table share the column the table is unique on.
UniqueOn(tbl, Key(_)) ==
    \A i, j \in 1..Len(tbl) : Key(tbl[i]) = Key(tbl[j]) => i = j

\* C4: a per-airport sequence (or the aircraft enrichment) run a second time
\* for the same airport and date, on the same payloads, leaves the row counts
\* of airport, aircraft and flights as they were, and at no time do two rows
\* of one of these tables share an identity key.
C4_RerunKeepsRowCounts ==
    /\ [](/\ UniqueOn(airport, AirportKey)
          /\ UniqueOn(aircraft, AircraftKey)
          /\ UniqueOn(flights, FlightKey))
    /\ [][rerun' => /\ Len(airport') = Len(airport)
                    /\ Len(aircraft') = Len(aircraft)
                    /\ Len(flights') = Len(flights)]_vars

\* A second run of new_main.py's sequence on the same payloads, with rows in
\* flights.
C4_Witness ==
    /\ rerun
    /\ pc = "done"
    /\ variant = "new_main"
    /\ Len(df) = 2
    /\ Len(flights) = 2

\* A second enrichment with a row in aircraft.
C4_WitnessAircraft ==
    /\ rerun
    /\ pc = "enriched"
    /\ Len(aircraft) = 1

IsPrefix(s, t) == Len(s) <= Len(t) /\ \A i \in 1..Len(s) : s[i] = t[i]

\* The number of rows of airport_delays for airport code and date d.
DelayRowsFor(tbl, code, d) ==
    Cardinality({i \in 1..Len(tbl) : tbl[i].airport_iata = code /\ tbl[i].delay_date = d})

\* C5: airport_delays is append-only.  Every step keeps the rows the table
\* holds, in place; every execution of compute_airport_delay_metrics followed
\* by insert_airport_delay for (airport, date) adds exactly one row for that
\* pair, so n executions leave n rows for it; no other step changes the table.
C5_AppendOnly ==
    [][/\ IsPrefix(airport_delays, airport_delays')
       /\ IF pc' = "done" /\ variant' = "etl" /\ error' = "none"
          THEN /\ Len(airport_delays') = Len(airport_delays) + 1
               /\ DelayRowsFor(airport_delays', iata', DATE) =
                      DelayRowsFor(airport_delays, iata', DATE) + 1
          ELSE airport_delays' = airport_delays]_vars

\* Two executions for the same airport and date have left two rows.
C5_Witness ==
    /\ rerun
    /\ pc = "done"
    /\ variant = "etl"
    /\ error = "none"
    /\ Len(airport_delays) = 2
    /\ DelayRowsFor(airport_delays, iata, DATE) = 2

\* The rows of a frame with code as origin and both departure times present.
DepartureSampleRows(frame, code) ==
    SelectSeq(frame, LAMBDA r : /\ r.origin_iata = Some(code)
                                /\ r.scheduled_departure # None
                                /\ r.actual_departure # None)

\* The rows of a frame with code as destination and both arrival times present.
ArrivalSampleRows(frame, code) ==
    SelectSeq(frame, LAMBDA r : /\ r.destination_iata = Some(code)
                                /\ r.scheduled_arrival # None
                                /\ r.actual_arrival # None)

\* max(0, actual - scheduled) in minutes, on the departure and arrival side.
DepartureDelayOf(r) == Max0(Val(r.actual_departure) - Val(r.scheduled_departure))
ArrivalDelayOf(r) == Max0(Val(r.actual_arrival) - Val(r.scheduled_arrival))

\* C6: in compute_airport_delay_metrics the sample of a row with the airport
\* as origin and both departure times present is max(0, actual_departure -
\* scheduled_departure); one row with origin DEL, scheduled 10:00Z, departed
\* 10:25Z gives delayed_flights = 1 and avg_delay_min = 25 for DEL.
C6_DepartureSample ==
    (pc = "computed" /\ variant = "etl" /\ Len(df) > 0) =>
        LET rows == DepartureSampleRows(df, iata)
        IN  /\ Len(delayCols.dep) = Len(rows)
            /\ \A i \in 1..Len(rows) : delayCols.dep[i] = Some(DepartureDelayOf(rows[i]))
            /\ (/\ iata = "DEL"
                /\ Len(df) = 1
                /\ df[1].origin_iata = Some("DEL")
                /\ df[1].destination_iata # Some("DEL")
                /\ df[1].scheduled_departure = Some(600)
                /\ df[1].actual_departure = Some(625))
               => /\ error = "none"
                  /\ metrics.raised = "none"
                  /\ metrics.delayed_flights = 1
                  /\ metrics.avg_delay_min = 25

\* C7: in etl.py and in new_main.py the arrival delay samples are those of
\* exactly the rows with the processed airport as destination and both
\* arrival times present, each max(0, actual_arrival - scheduled_arrival),
\* whichever airport of the list is processed.
C7_ArrivalSample ==
    (pc = "computed" /\ Len(df) > 0) =>
        LET rows == ArrivalSampleRows(df, iata)
        IN  /\ Len(delayCols.arr) = Len(rows)
            /\ \A i \in 1..Len(rows) : delayCols.arr[i] = Some(ArrivalDelayOf(rows[i]))

\* C8: no delay value the delay step computes is negative.  The values of
\* new_main.py's columns, of etl.py's arrival column and of etl.py's departure
\* column as first assigned are defined and >= 0; etl.py's departure column
\* as pooled holds no negative value.
C8_DelaysNonNegative ==
    pc = "computed" =>
        /\ \A i \in 1..Len(delayCols.dep_first) :
              delayCols.dep_first[i] # NaN /\ Val(delayCols.dep_first[i]) >= 0
        /\ \A i \in 1..Len(delayCols.arr) :
              delayCols.arr[i] # NaN /\ Val(delayCols.arr[i]) >= 0
        /\ \A i \in 1..Len(delayCols.dep) :
              delayCols.dep[i] # NaN => Val(delayCols.dep[i]) >= 0

\* A departure that left before its scheduled time has the delay 0, in a
\* frame that also holds an arrival that came in early.
C8_Witness ==
    /\ pc = "computed"
    /\ \E i \in 1..Len(DepartureSampleRows(df, iata)) :
          /\ Val(DepartureSampleRows(df, iata)[i].actual_departure)
                < Val(DepartureSampleRows(df, iata)[i].scheduled_departure)
          /\ delayCols.dep_first[i] = Some(0)
    /\ \E i \in 1..Len(delayCols.arr) : delayCols.arr[i] = Some(0)

\* C9: with no delay sample for the airport, compute_airport_delay_metrics
\* returns avg_delay_min = 0 and median_delay_min = 0 and does not raise.
C9_EmptySampleZero ==
    (/\ pc = "computed"
     /\ variant = "etl"
     /\ DepartureSampleRows(df, iata) = <<>>
     /\ ArrivalSampleRows(df, iata) = <<>>)
    => /\ error = "none"
       /\ metrics.raised = "none"
       /\ metrics.avg_delay_min = 0
       /\ metrics.median_delay_min = 0

\* C10: delayed_flights is the number of departure rows at the airport with
\* a departure delay > 0 plus the number of arrival rows at the airport with
\* an arrival delay > 0, and is at most total_flights.
C10_DelayedFlightsCount ==
    (pc = "computed" /\ variant = "etl" /\ error = "none") =>
        /\ metrics.delayed_flights =
              Len(SelectSeq(DepartureSampleRows(df, iata),
                            LAMBDA r : DepartureDelayOf(r) > 0))
              + Len(SelectSeq(ArrivalSampleRows(df, iata),
                              LAMBDA r : ArrivalDelayOf(r) > 0))
        /\ metrics.delayed_flights <= metrics.total_flights

\* The cancellation states of the upstream's status enumeration.
CancellationStates == {Some("Canceled"), Some("CanceledUncertain")}

\* The rows of a frame that have code as origin or destination and a
\* cancellation state as status.
CancelledRowsAt(frame, code) ==
    SelectSeq(frame, LAMBDA r :
        /\ (r.origin_iata = Some(code) \/ r.destination_iata = Some(code))
        /\ r.status \in CancellationStates)

\* C11: canceled_flights is the number of rows of the frame that touch the
\* airport and whose status is a cancellation state (Canceled or
\* CanceledUncertain); a row without status is not counted and does not
\* make the function raise.
C11_CanceledFlightsCount ==
    (pc = "computed" /\ variant = "etl" /\ Len(df) > 0) =>
        /\ (\E i \in 1..Len(df) : df[i].status = None) => error # "AttributeError"
        /\ error = "none" =>
              metrics.canceled_flights = Len(CancelledRowsAt(df, iata))

\* A datetime converted to the reference timezone, as wall-clock minutes
\* from the midnight of DATE.
LocalTime(dt) == dt.utc + IstOffsetMin

\* C12: for a local date D the splitter of fetch_flights (etl.py,
\* new_main.py) gives exactly two windows, in order; in local time the
\* first starts at D 00:00, the second ends at D 23:59, and at most one
\* minute lies between the end of the first and the start of the second.
C12_WindowsCoverLocalDay ==
    (pc # "call" /\ variant \in {"etl", "new_main"}) =>
        /\ Len(windows) = 2
        /\ LocalTime(windows[1][1]) = date * 1440
        /\ LocalTime(windows[2][2]) = date * 1440 + 23 * 60 + 59
        /\ LocalTime(windows[1][1]) <= LocalTime(windows[1][2])
        /\ LocalTime(windows[1][2]) <= LocalTime(windows[2][1])
        /\ LocalTime(windows[2][1]) - LocalTime(windows[1][2]) <= 1
        /\ LocalTime(windows[2][1]) <= LocalTime(windows[2][2])

\* The windows of the day after DATE, built by etl.py.
C12_Witness ==
    /\ pc = "split"
    /\ variant = "etl"
    /\ date = 1
    /\ windows[1][1].utc = 1440 - IstOffsetMin
    /\ windows[2][2].utc = 2 * 1440 - 1 - IstOffsetMin

\* C13: in etl.py, new_main.py and main.py every window starts strictly
\* before it ends, the first window ends before the second starts, and the
\* two instants differ by one minute.
C13_WindowsDisjoint ==
    pc # "call" =>
        /\ \A j \in 1..Len(windows) : windows[j][1].utc < windows[j][2].utc
        /\ windows[1][2].utc < windows[2][1].utc
        /\ windows[2][1].utc - windows[1][2].utc = 1

\* The responses of a call that answered 200.
Answered200(resp) == SelectSeq(resp, LAMBDA r : r.status_code = 200)

\* C14: in fetch_flights (etl.py, new_main.py) a window answered 400 adds no
\* flight and does not end the call: when every window is answered 200 or
\* 400 all windows are requested and the call returns what the windows
\* answered 200 give; any other status raises and nothing is returned.
C14_BadRequestSkipped ==
    (pc \in {"returned", "raised"} /\ variant \in {"etl", "new_main"}) =>
        IF \A j \in 1..Len(responses) : responses[j].status_code \in {200, 400}
        THEN /\ pc = "returned"
             /\ error = "none"
             /\ Len(responses) = Len(windows)
             /\ fetched.departures = FetchOf(variant, Answered200(responses)).departures
             /\ fetched.arrivals = FetchOf(variant, Answered200(responses)).arrivals
        ELSE /\ pc = "raised"
             /\ error = "HTTPError"
             /\ fetched = NoFlights

\* The response to the last aircraft lookup.
LastResponse == responses[Len(responses)]

\* C15: fetch_aircraft_data returns None only for a not-found response or
\* an empty body; a lookup answered with another status that is not 2xx
\* (429, 500) ends as a failure of the call, not as None.
C15_AircraftFailureReported ==
    (variant = "etl" /\ responses # <<>>) =>
        /\ aircraft_data = None =>
              \/ LastResponse.status_code = 404
              \/ LastResponse.status_code = 200 /\ LastResponse.text = None
        /\ LastResponse.status_code \notin {200, 404} => error = "HTTPError"

\* C16: when fetch_aircraft_data returns None, insert_aircraft leaves the
\* aircraft table as it is, nothing is raised, and the aircraft loop goes on
\* with the next registration; the loop ends only when the registry has
\* been visited.
C16_AbsentAircraftSkipped ==
    /\ [][(pc = "aircraft_loop" /\ responses' # responses /\ aircraft_data' = None)
            => /\ aircraft' = aircraft
               /\ error' = "none"
               /\ todo' = Tail(todo)
               /\ pc' = IF todo' = <<>> THEN "exit" ELSE "aircraft_loop"]_vars
    /\ []((variant = "etl" /\ pc = "exit") =>
            /\ todo = <<>>
            /\ Len(calls) = 2 * Cardinality(AIRCRAFT_REGISTRATIONS))

\* The first lookup was answered 404, the loop went on and the second
\* lookup stored its aircraft.
C16_Witness ==
    /\ variant = "etl"
    /\ pc = "exit"
    /\ Len(responses) = 2
    /\ responses[1].status_code = 404
    /\ responses[2].status_code = 200
    /\ Len(aircraft) = 1

\* The airports of the list, in list order.
AllAirports == [j \in 1..NumAirports |-> AIRPORTS[j]]

\* C17: when run_etl returns, its loop has attempted every airport of
\* AIRPORTS once, in list order, whether or not a sequence raised.
C17_EveryAirportAttempted ==
    pc = "exit" => attempted = AllAirports

\* The steps of one airport's sequence, in order.
PipelineSteps ==
    <<"FetchAirport", "FetchFlights", "Normalize", "PersistFlights",
      "ComputeDelayMetrics", "PersistDelayMetrics">>

\* C18: the steps of an airport's sequence are done in the order
\* FetchAirport, FetchFlights, Normalize, PersistFlights,
\* ComputeDelayMetrics, PersistDelayMetrics, none before the one before it
\* is done, and a sequence that did not fail has done all six and has
\* written one airport_delays row for the airport and the date.
C18_StepsInOrder ==
    variant \in {"etl", "new_main"} =>
        /\ IsPrefix(steps, PipelineSteps)
        /\ (pc = "exit" /\ attempted # <<>> /\ error = "none") =>
              /\ steps = PipelineSteps
              /\ DelayRowsFor(airport_delays, iata, DATE) = 1

\* C19: a sleep lies between every two successive upstream requests.
C19_PacedCalls ==
    \A k \in 1..(Len(calls) - 1) : ~(calls[k] = "GET" /\ calls[k + 1] = "GET")

\* C20: the frame returned by flights_to_dataframe holds no flight_id
\* twice; every row of it is the first row of its flight_id in normalization
\* order (the departures in input order, then the arrivals in input order),
\* and every flight_id of the normalized rows is in the frame.
C20_FirstOccurrenceKept ==
    pc \in {"framed", "computed"} =>
        LET rows == NormalizedRows(variant, fetched, iata)
        IN  /\ \A k, m \in 1..Len(df) : df[k].flight_id = df[m].flight_id => k = m
            /\ \A k \in 1..Len(df) :
                  \E i \in 1..Len(rows) :
                     /\ df[k] = rows[i]
                     /\ \A j \in 1..(i - 1) : rows[j].flight_id # rows[i].flight_id
            /\ \A i \in 1..Len(rows) :
                  \E k \in 1..Len(df) : df[k].flight_id = rows[i].flight_id

\* Two departures share a flight_id and differ in their revised time: the
\* frame holds the first of them only.
C20_Witness ==
    /\ pc = "framed"
    /\ Len(fetched.departures) = 2
    /\ fetched.arrivals = <<>>
    /\ fetched.departures[1].depSched = fetched.departures[2].depSched
    /\ fetched.departures[1].depRev # fetched.departures[2].depRev
    /\ Len(df) = 1
    /\ df[1].actual_departure = fetched.departures[1].depRev

\* How often x occurs in a list.
Count(list, x) == Cardinality({i \in 1..Len(list) : list[i] = x})

\* Both windows of the call were answered 200.
BothWindowsListed ==
    /\ Len(responses) = 2
    /\ responses[1].status_code = 200
    /\ responses[2].status_code = 200

\* C21: a flight that both windows of one fetch_flights call (etl.py,
\* new_main.py) list as a departure is once in the returned departures, and
\* likewise for arrivals; after flights_to_dataframe exactly one row of the
\* frame carries its flight_id.
C21_CrossWindowOnce ==
    (/\ variant \in {"etl", "new_main"}
     /\ pc \in {"returned", "framed", "computed"}
     /\ BothWindowsListed) =>
        /\ \A p \in Items(responses[1].departures) \cap Items(responses[2].departures) :
              /\ Count(fetched.departures, p) = 1
              /\ pc # "returned" =>
                    Cardinality({k \in 1..Len(df) :
                        df[k].flight_id = DepFlightIdOf(variant, p)}) = 1
        /\ \A p \in Items(responses[1].arrivals) \cap Items(responses[2].arrivals) :
              /\ Count(fetched.arrivals, p) = 1
              /\ pc # "returned" =>
                    Cardinality({k \in 1..Len(df) :
                        df[k].flight_id = ArrFlightIdOf(variant, p)}) = 1

\* The airport of the queried side of a row: the one the payload names, or
\* the queried airport when it names none.
QueriedSide(named, code) == IF named = None THEN Some(code) ELSE named

RevisedOrScheduled(revised, scheduled) == IF revised # None THEN revised ELSE scheduled

\* The payloads of a fetch result in normalization order.
PayloadsOf(fl) == fl.departures \o fl.arrivals

\* C23: in every normalized row (etl.py, new_main.py) actual_departure is
\* the payload's revised departure time when there is one and the scheduled
\* departure time otherwise, and likewise actual_arrival; an actual time is
\* absent only when the scheduled time of its side is absent.
C23_ActualFallsBackToScheduled ==
    pc \in {"framed", "computed"} =>
        LET rows == NormalizedRows(variant, fetched, iata)
            ps   == PayloadsOf(fetched)
        IN  /\ \A k \in 1..Len(rows) :
                  /\ rows[k].actual_departure =
                        RevisedOrScheduled(ps[k].depRev, ps[k].depSched)
                  /\ rows[k].actual_arrival =
                        RevisedOrScheduled(ps[k].arrRev, ps[k].arrSched)
            /\ \A k \in 1..Len(df) :
                  /\ df[k].actual_departure = None => df[k].scheduled_departure = None
                  /\ df[k].actual_arrival = None => df[k].scheduled_arrival = None

\* The boundaries of the two windows of local day d, as wall-clock minutes
\* of the reference timezone from the midnight of DATE.
LocalBoundaries(d) ==
    <<<<d * 1440, d * 1440 + 12 * 60>>,
      <<d * 1440 + 12 * 60 + 1, d * 1440 + 23 * 60 + 59>>>>

\* The UTC wall-clock time of a wall-clock time of the reference timezone.
UtcOfLocal(t) == t - IstOffsetMin

\* C24: in etl.py and new_main.py the from and to timestamps of every
\* window request are the UTC equivalents of the local window boundaries.
C24_RequestStampsInUtc ==
    (pc # "call" /\ variant \in {"etl", "new_main"}) =>
        /\ Len(FromTo(windows)) = 2
        /\ \A j \in 1..2 :
              /\ FromTo(windows)[j][1] = UtcOfLocal(LocalBoundaries(date)[j][1])
              /\ FromTo(windows)[j][2] = UtcOfLocal(LocalBoundaries(date)[j][2])

\* The registration of lookup k was answered with a record.
AnsweredWithRecord(k) == responses[k].status_code = 200 /\ responses[k].text # None

\* C25: a database error raised while insert_aircraft inserts a record is
\* caught inside insert_aircraft.  The step in which it happens raises
\* nothing, leaves the rows of aircraft as they are and goes on to the next
\* registration; no step removes a row of aircraft; run_etl never ends with
\* an exception, and when it returns every registration has been looked up
\* and every record whose insert did not fail is in the table.
C25_DbErrorCaught ==
    /\ [][(pc = "aircraft_loop" /\ db_errors' # db_errors)
            => /\ error' = "none"
               /\ aircraft' = aircraft
               /\ todo' = Tail(todo)
               /\ pc' = IF todo' = <<>> THEN "exit" ELSE "aircraft_loop"]_vars
    /\ [][IsPrefix(aircraft, aircraft')]_vars
    /\ [](pc # "raised")
    /\ []((variant = "etl" /\ pc = "exit") =>
            /\ todo = <<>>
            /\ Len(lookups) = Cardinality(AIRCRAFT_REGISTRATIONS \ {None})
            /\ \A k \in 1..Len(lookups) :
                  (AnsweredWithRecord(k) /\ lookups[k] \notin Items(db_errors))
                  => \E i \in 1..Len(aircraft) : aircraft[i].registration = lookups[k])

\* The insert of the first record raised; the second registration was
\* looked up after it and its record is the one row of aircraft.
C25_Witness ==
    /\ variant = "etl"
    /\ pc = "exit"
    /\ Len(lookups) = 2
    /\ db_errors = <<lookups[1]>>
    /\ AnsweredWithRecord(1)
    /\ AnsweredWithRecord(2)
    /\ Len(aircraft) = 1
    /\ aircraft[1].registration = lookups[2]

\* C26: no operation updates or deletes a stored row.  In every step each
\* table keeps the rows it holds, in place and with their attributes, also
\* when the step inserts a row whose identity key is present with other
\* attribute values; so no row count ever decreases.
C26_NoUpdateNoDelete ==
    [][/\ IsPrefix(airport, airport')
       /\ IsPrefix(aircraft, aircraft')
       /\ IsPrefix(flights, flights')
       /\ IsPrefix(airport_delays, airport_delays')]_vars

\* A row of the frame just inserted has the flight_id of a stored row with
\* other attribute values: the stored row is the one the table keeps.
C26_Witness ==
    /\ pc = "done"
    /\ variant = "new_main"
    /\ runs = 2
    /\ \E k \in 1..Len(df) : \E i \in 1..Len(flights) :
          /\ flights[i].flight_id = df[k].flight_id
          /\ flights[i] # df[k]
          /\ flights[i].origin_iata # df[k].origin_iata

\* Every window of the call has been requested and has contributed no
\* flight: it was answered 400, or 200 with empty departures and arrivals.
AllWindowsEmpty ==
    /\ pc \notin {"call", "split"}
    /\ Len(responses) = Len(windows)
    /\ \A j \in 1..Len(responses) :
          \/ responses[j].status_code = 400
          \/ /\ responses[j].status_code = 200
             /\ responses[j].departures = <<>>
             /\ responses[j].arrivals = <<>>

\* C27: when every window of an airport contributes no flight, etl.py's
\* fetch_flights returns, flights_to_dataframe returns no rows, nothing is
\* written to flights, and compute_airport_delay_metrics returns a summary
\* whose five counts are 0, without raising.
C27_EmptyDayCompletes ==
    (variant = "etl" /\ AllWindowsEmpty) =>
        /\ pc # "raised"
        /\ fetched = NoFlights
        /\ flights = <<>>
        /\ pc \in {"framed", "computed"} => df = <<>>
        /\ pc = "computed" =>
              /\ error = "none"
              /\ metrics.raised = "none"
              /\ metrics.total_flights = 0
              /\ metrics.delayed_flights = 0
              /\ metrics.avg_delay_min = 0
              /\ metrics.median_delay_min = 0
              /\ metrics.canceled_flights = 0

\* C28: every value pooled by compute_airport_delay_metrics is a defined
\* number: on a frame with rows the function does not raise, no value of the
\* pooled departure and arrival columns is NaN, and avg_delay_min and
\* median_delay_min are integers.
C28_PooledSamplesDefined ==
    (pc = "computed" /\ variant = "etl" /\ Len(df) > 0) =>
        /\ \A i \in 1..Len(delayCols.dep) : delayCols.dep[i] # NaN
        /\ \A i \in 1..Len(delayCols.arr) : delayCols.arr[i] # NaN
        /\ error = "none"
        /\ metrics.raised = "none"
        /\ metrics.avg_delay_min \in Int
        /\ metrics.median_delay_min \in Int

\* C29: the cross-window filter of etl.py's fetch_flights discards a flight
\* only if it retains a flight of the same direction with the same identity
\* key (flight number and scheduled time): every departure a window lists
\* has its key among the returned departures, and likewise every arrival.
C29_DistinctFlightsKept ==
    (variant = "etl" /\ pc \in {"returned", "framed", "computed"}) =>
        \A j \in 1..Len(responses) :
            responses[j].status_code = 200 =>
                /\ \A p \in Items(responses[j].departures) :
                      \E q \in Items(fetched.departures) :
                         EtlDepFlightId(q) = EtlDepFlightId(p)
                /\ \A p \in Items(responses[j].arrivals) :
                      \E q \in Items(fetched.arrivals) :
                         EtlArrFlightId(q) = EtlArrFlightId(p)

\* The requests in a trace of calls.
Requests(trace) == SelectSeq(trace, LAMBDA c : c = "GET")

\* C30: the registry of etl.py only grows.  No step removes an entry;
\* once flights_to_dataframe has run, the registration of every departure
\* and arrival payload of its input is in the registry, None for a payload
\* without registration and also for rows the deduplication dropped; the
\* aircraft loop of run_etl never looks up None nor an entry twice, and when
\* it has ended it has issued one lookup for every entry that is not None.
C30_RegistryOnlyGrows ==
    /\ [][AIRCRAFT_REGISTRATIONS \subseteq AIRCRAFT_REGISTRATIONS']_vars
    /\ [](pc # "fetched" =>
            \A p \in Items(PayloadsOf(fetched)) : p.reg \in AIRCRAFT_REGISTRATIONS)
    /\ [](/\ None \notin Items(lookups)
          /\ \A k, m \in 1..Len(lookups) : lookups[k] = lookups[m] => k = m
          /\ Len(Requests(calls)) = Len(lookups))
    /\ [](pc = "exit" => Items(lookups) = AIRCRAFT_REGISTRATIONS \ {None})

\* flights_to_dataframe has added None, from the row it kept, and a new
\* registration, from a row the deduplication dropped, and the loop has
\* looked up the three entries that are not None.
C30_Witness ==
    /\ pc = "exit"
    /\ Len(df) = 1
    /\ df[1].aircraft_registration = None
    /\ AIRCRAFT_REGISTRATIONS = RegistrySeed \cup {None, Some("VT-ANB")}
    /\ Len(lookups) = 3
    /\ Len(Requests(calls)) = 3

=============================================================================
